---- MODULE Spec2Model ----
(***************************************************************************)
(* Request-gating pipeline of the NestJS starter backend:                  *)
(*   RawBodyMiddleware -> router -> AuthGuard -> controller -> UsersService *)
(* over the Prisma store (User, Session, Account) and the Better Auth      *)
(* session resolver.  One HTTP request is in flight at a time; service     *)
(* calls made by other callers interleave with its steps at every await.   *)
(***************************************************************************)
EXTENDS Naturals, Sequences, FiniteSets, TLC

(***************************************************************************)
(* users     the users table: id -> row             (schema.prisma, User)  *)
(* nextId    number of the next generated user id   (@default(cuid()))     *)
(* clock     now(), the source of createdAt and updatedAt                  *)
(* sessions  the rows of the sessions table         (schema.prisma)        *)
(* accounts  the rows of the accounts table         (schema.prisma)        *)
(* issued    every session the provider has issued; its cookie cache may   *)
(*           still resolve one whose row is gone    (auth.ts, cookieCache) *)
(* nextSid   number of the next session id                                 *)
(* off       history: users removed or hard-deleted and not reactivated    *)
(* last      what the last direct call of a service returned, and the row  *)
(*           it addressed as it was before the call                        *)
(* req       the HTTP request in flight: its position in the pipeline,     *)
(*           what the middleware and the guard attached to it, the trace   *)
(*           of pipeline events and the response                           *)
(* fe        the frontend: what useSession() holds, what each layout       *)
(*           rendered last and from which values, the routes pushed, and   *)
(*           the state of the two data queries                             *)
(***************************************************************************)
VARIABLES users, nextId, clock, sessions, accounts, issued, nextSid, off,
          last, req, fe

vars == <<users, nextId, clock, sessions, accounts, issued, nextSid, off,
          last, req, fe>>

(***************************************************************************)
(* Bounds of the model.                                                    *)
(***************************************************************************)
MaxUsers == 2

MaxClock == 1

MaxSessions == 2

\* routes pushed by the layouts in one run
MaxPushes == 2

Emails == {"a@x.com", "b@x.com"}

(***************************************************************************)
(* Values.                                                                 *)
(***************************************************************************)
UserId(n) == "u" \o ToString(n)

UserIds == {UserId(n) : n \in 1..MaxUsers}

NoId == "null"

NoSession == [id |-> 0, userId |-> NoId]

NullResult == [isNull |-> TRUE, session |-> NoSession, user |-> NoId]

NoError == "none"

(***************************************************************************)
(* String helpers: String.prototype.startsWith and the request URL of a    *)
(* path given by its segments.                                             *)
(***************************************************************************)
StartsWith(s, p) == Len(s) >= Len(p) /\ SubSeq(s, 1, Len(p)) = p

RECURSIVE Url(_)
Url(segs) == IF segs = << >> THEN "" ELSE "/" \o Head(segs) \o Url(Tail(segs))

(***************************************************************************)
(* Object spread { ...a, ...b }: the keys of b override those of a.        *)
(***************************************************************************)
Spread(a, b) ==
  [k \in DOMAIN a \cup DOMAIN b |-> IF k \in DOMAIN b THEN b[k] ELSE a[k]]

EmptyDto == [k \in {} |-> TRUE]

(***************************************************************************)
(* CreateUserDto: email required, emailVerified and isActive optional.     *)
(***************************************************************************)
CreateDtos ==
  { [email |-> "a@x.com"],
    [email |-> "b@x.com", isActive |-> FALSE],
    [email |-> "a@x.com", emailVerified |-> TRUE] }

(***************************************************************************)
(* UpdateUserDto: the fields of CreateUserDto, all optional.               *)
(***************************************************************************)
UpdateDtos ==
  { [email |-> e] : e \in Emails } \cup { [isActive |-> b] : b \in BOOLEAN }

(***************************************************************************)
(* Prisma client on the User model (schema.prisma).                        *)
(***************************************************************************)
\* a users table without the unique index on email
EmailTaken_Never(us, e, exceptId) == FALSE

\* User.email @unique: some row other than exceptId holds e
EmailTaken(us, e, exceptId) ==
  \E i \in DOMAIN us : i # exceptId /\ us[i].email = e

SchemaDefaults == [emailVerified |-> FALSE, isActive |-> TRUE]

\* prisma.user.create: unique email, generated id, createdAt = now(),
\* updatedAt = now()
PrismaCreate(us, id, now, data) ==
  IF EmailTaken(us, data.email, NoId)
    THEN [users |-> us, error |-> "P2002", rows |-> << >>]
    ELSE LET row == Spread(Spread(SchemaDefaults, data),
                           [id |-> id, createdAt |-> now, updatedAt |-> now])
         IN [users |-> [i \in DOMAIN us \cup {id} |->
                           IF i = id THEN row ELSE us[i]],
             error |-> NoError, rows |-> <<row>>]

\* a lookup by id that also asks for isActive: true
FindUniqueById_ActiveOnly(us, id) ==
  IF id \in DOMAIN us /\ us[id].isActive THEN <<us[id]>> ELSE << >>

\* prisma.user.findUnique({ where: { id } })
FindUniqueById(us, id) ==
  IF id \in DOMAIN us THEN <<us[id]>> ELSE << >>

\* prisma.user.findUnique({ where: { email } })
FindUniqueByEmail(us, e) ==
  IF \E i \in DOMAIN us : us[i].email = e
    THEN <<us[CHOOSE i \in DOMAIN us : us[i].email = e]>>
    ELSE << >>

\* prisma.user.update: record must exist, email stays unique, @updatedAt is
\* set to now() by every update
PrismaUpdate(us, id, now, data) ==
  IF id \notin DOMAIN us
    THEN [users |-> us, error |-> "P2025", rows |-> << >>]
    ELSE IF "email" \in DOMAIN data /\ EmailTaken(us, data.email, id)
      THEN [users |-> us, error |-> "P2002", rows |-> << >>]
      ELSE LET row == Spread(Spread(us[id], [updatedAt |-> now]), data)
           IN [users |-> [us EXCEPT ![id] = row],
               error |-> NoError, rows |-> <<row>>]

\* prisma.user.delete: record must exist
PrismaDelete(us, id) ==
  IF id \notin DOMAIN us
    THEN [users |-> us, error |-> "P2025", rows |-> << >>]
    ELSE [users |-> [i \in DOMAIN us \ {id} |-> us[i]],
          error |-> NoError, rows |-> <<us[id]>>]

\* relations declared without onDelete: Cascade
Cascade_None(rows, us) == rows

\* onDelete: Cascade on Session.user and Account.user
Cascade(rows, us) == { r \in rows : r.userId \in DOMAIN us }

(***************************************************************************)
(* findMany({ where, orderBy: { createdAt: 'desc' } }): every ordering of  *)
(* the matching rows that is descending in createdAt (ties in any order).  *)
(***************************************************************************)
\* findMany without the where clause
FindAllWhere_Everyone(u) == TRUE

FindAllWhere(u) == u.isActive = TRUE

OrderedDesc(a, b) == a.createdAt >= b.createdAt

Listings(S) ==
  { q \in [1..Cardinality(S) -> S] :
      /\ \A i, j \in DOMAIN q : i # j => q[i] # q[j]
      /\ \A i, j \in DOMAIN q : i < j => OrderedDesc(q[i], q[j]) }

FindMany(us) == Listings({ us[i] : i \in { j \in DOMAIN us : FindAllWhere(us[j]) } })

(***************************************************************************)
(* UsersService.                                                           *)
(***************************************************************************)
\* data of create with the DTO spread after the defaults
CreateData_DtoWins(dto) == Spread([emailVerified |-> FALSE, isActive |-> TRUE], dto)

\* data of create: the DTO first, then the two fixed defaults
CreateData(dto) == Spread(dto, [emailVerified |-> FALSE, isActive |-> TRUE])

ServiceCreate(dto) == PrismaCreate(users, UserId(nextId), clock, CreateData(dto))

ServiceFindAll == FindMany(users)

ServiceFindOne(id) == FindUniqueById(users, id)

ServiceFindByEmail(e) == FindUniqueByEmail(users, e)

ServiceUpdate(id, dto) == PrismaUpdate(users, id, clock, dto)

RemoveData == [isActive |-> FALSE]

\* remove as a physical delete
ServiceRemove_Delete(id) == PrismaDelete(users, id)

\* remove whose where clause also asks for isActive: true
ServiceRemove_ActiveOnly(id) ==
  IF id \in DOMAIN users /\ users[id].isActive = FALSE
    THEN [users |-> users, error |-> "P2025", rows |-> << >>]
    ELSE PrismaUpdate(users, id, clock, RemoveData)

ServiceRemove(id) == PrismaUpdate(users, id, clock, RemoveData)

ServiceHardDelete(id) == PrismaDelete(users, id)

\* AuthService.updateUserStatus
StatusData(isActive) == [isActive |-> isActive]

(***************************************************************************)
(* Bookkeeping for the temporal claims.  off: the users whose remove or    *)
(* hardDelete has completed and whose isActive has not been set back to    *)
(* true since.  req.stillOff: the members of off at the start of the       *)
(* request in flight that have stayed in off ever since.                   *)
(***************************************************************************)
OffAfter(o, res, op, id, data) ==
  IF res.error # NoError THEN o
  ELSE IF op \in {"remove", "hardDelete"} THEN o \cup {id}
  ELSE IF "isActive" \in DOMAIN data /\ data.isActive = TRUE THEN o \ {id}
  ELSE o

\* the store after operation op of the service; r is the request afterwards
Commit(res, op, id, data, r) ==
  /\ users' = res.users
  /\ nextId' = IF op = "create" /\ res.error = NoError THEN nextId + 1 ELSE nextId
  /\ sessions' = IF op = "hardDelete" THEN Cascade(sessions, res.users) ELSE sessions
  /\ accounts' = IF op = "hardDelete" THEN Cascade(accounts, res.users) ELSE accounts
  /\ off' = OffAfter(off, res, op, id, data)
  /\ req' = [r EXCEPT !.stillOff = @ \cap OffAfter(off, res, op, id, data)]

\* what a mutating call returned, with the addressed row as it was before the
\* call and whether a remove of it had completed before
Returned(op, id, res) ==
  [op |-> op, id |-> id, error |-> res.error, rows |-> res.rows,
   before |-> FindUniqueById(users, id), wasOff |-> id \in off]

\* what a read returned
Found(op, key, rows) ==
  [op |-> op, id |-> key, error |-> NoError, rows |-> rows,
   before |-> << >>, wasOff |-> FALSE]

(***************************************************************************)
(* Calls of the services by callers other than the request in flight.      *)
(***************************************************************************)
Create(dto) ==
  /\ nextId <= MaxUsers \/ EmailTaken(users, dto.email, NoId)
  /\ LET res == ServiceCreate(dto)
     IN /\ Commit(res, "create", NoId, dto, req)
        /\ last' = Returned("create", NoId, res)
  /\ UNCHANGED <<fe, clock, issued, nextSid>>

FindAll ==
  /\ \E q \in ServiceFindAll :
       last' = Found("findAll", NoId, q)
  /\ UNCHANGED <<fe, users, nextId, clock, sessions, accounts, issued, nextSid, off, req>>

FindOne(id) ==
  /\ last' = Found("findOne", id, ServiceFindOne(id))
  /\ UNCHANGED <<fe, users, nextId, clock, sessions, accounts, issued, nextSid, off, req>>

FindByEmail(e) ==
  /\ last' = Found("findByEmail", e, ServiceFindByEmail(e))
  /\ UNCHANGED <<fe, users, nextId, clock, sessions, accounts, issued, nextSid, off, req>>

Update(id, dto) ==
  /\ LET res == ServiceUpdate(id, dto)
     IN /\ Commit(res, "update", id, dto, req)
        /\ last' = Returned("update", id, res)
  /\ UNCHANGED <<fe, clock, issued, nextSid>>

Remove(id) ==
  /\ LET res == ServiceRemove(id)
     IN /\ Commit(res, "remove", id, RemoveData, req)
        /\ last' = Returned("remove", id, res)
  /\ UNCHANGED <<fe, clock, issued, nextSid>>

HardDelete(id) ==
  /\ LET res == ServiceHardDelete(id)
     IN /\ Commit(res, "hardDelete", id, EmptyDto, req)
        /\ last' = Returned("hardDelete", id, res)
  /\ UNCHANGED <<fe, clock, issued, nextSid>>

UpdateUserStatus(id, isActive) ==
  /\ LET res == PrismaUpdate(users, id, clock, StatusData(isActive))
     IN /\ Commit(res, "update", id, StatusData(isActive), req)
        /\ last' = Returned("updateUserStatus", id, res)
  /\ UNCHANGED <<fe, clock, issued, nextSid>>

\* now() advances
Tick ==
  /\ clock < MaxClock
  /\ clock' = clock + 1
  /\ UNCHANGED <<fe, users, nextId, sessions, accounts, issued, nextSid, off, last, req>>

(***************************************************************************)
(* Inbound HTTP requests.                                                  *)
(***************************************************************************)
NoBody == [kind |-> "none", dto |-> EmptyDto]

\* bodies that the parsers reject
BadJson == [kind |-> "badjson", dto |-> EmptyDto]

BadForm == [kind |-> "badform", dto |-> EmptyDto]

JsonBodies(dtos) == { [kind |-> "json", dto |-> d] : d \in dtos }

FormBodies(dtos) == { [kind |-> "form", dto |-> d] : d \in dtos }

Inbound ==
  { [method |-> "GET", segs |-> p, raw |-> NoBody] :
      p \in { <<"api">>, <<"api", "health">>, <<"api", "users">>,
              <<"api", "users", "me">>, <<"api", "authors">> }
            \cup { <<"api", "users", i>> : i \in UserIds } }
  \cup { [method |-> "GET", segs |-> <<"api", "users">>, raw |-> BadJson] }
  \cup { [method |-> "POST", segs |-> <<"api", "users">>, raw |-> b] :
      b \in JsonBodies(CreateDtos \cup {EmptyDto})
            \cup FormBodies({[email |-> "a@x.com"]}) \cup {BadJson, BadForm} }
  \cup { [method |-> "PATCH", segs |-> <<"api", "users", i>>, raw |-> b] :
      i \in UserIds, b \in JsonBodies({[isActive |-> TRUE], [email |-> "b@x.com"]}) }
  \cup { [method |-> "PATCH", segs |-> <<"api", "users", UserId(1)>>, raw |-> BadJson] }
  \cup { [method |-> "DELETE", segs |-> <<"api", "users", i>>, raw |-> NoBody] :
      i \in UserIds }
  \cup { [method |-> "POST", segs |-> <<"api", "auth", "sign-in">>, raw |-> b] :
      b \in JsonBodies({EmptyDto}) \cup {BadJson} }
  \cup { [method |-> "POST", segs |-> <<"api", "authors">>, raw |-> b] :
      b \in JsonBodies({[email |-> "a@x.com"]}) }

\* how the framework mounts the middleware: on a wildcard path (the whole
\* path is in baseUrl) or on the root (the whole path is in url)
Mounts == {"wildcard", "root"}

BaseUrl(segs, mount) == IF mount = "wildcard" THEN Url(segs) ELSE ""

ReqUrl(segs, mount) == IF mount = "wildcard" THEN "/" ELSE Url(segs)

NoResponse == [status |-> 0, message |-> "", rows |-> << >>]

IdleReq ==
  [pc |-> "idle", method |-> "", segs |-> << >>, raw |-> NoBody,
   body |-> EmptyDto, parsed |-> FALSE, trace |-> << >>, handler |-> "",
   sres |-> NullResult, user |-> NoId, session |-> NoSession,
   resolved |-> FALSE, seen |-> "", offAtLookup |-> FALSE,
   resp |-> NoResponse, cause |-> "", stillOff |-> {}, log |-> << >>]

HttpError(status, message) == [status |-> status, message |-> message, rows |-> << >>]

(***************************************************************************)
(* Routing: global prefix 'api', controllers in module order, routes in    *)
(* declaration order; the first matching route handles the request.        *)
(***************************************************************************)
GlobalPrefix == "api"

\* @UseGuards(AuthGuard) left off GET /users
RouteTable_FindAllOpen ==
  << [method |-> "GET",    path |-> << >>,             handler |-> "getHello",       guarded |-> FALSE],
     [method |-> "GET",    path |-> <<"health">>,      handler |-> "getHealth",      guarded |-> FALSE],
     [method |-> "POST",   path |-> <<"users">>,       handler |-> "create",         guarded |-> FALSE],
     [method |-> "GET",    path |-> <<"users">>,       handler |-> "findAll",        guarded |-> FALSE],
     [method |-> "GET",    path |-> <<"users", "me">>, handler |-> "getCurrentUser", guarded |-> TRUE],
     [method |-> "GET",    path |-> <<"users", ":id">>, handler |-> "findOne",       guarded |-> TRUE],
     [method |-> "PATCH",  path |-> <<"users", ":id">>, handler |-> "update",        guarded |-> TRUE],
     [method |-> "DELETE", path |-> <<"users", ":id">>, handler |-> "remove",        guarded |-> TRUE],
     [method |-> "ALL",    path |-> <<"auth", "*">>,   handler |-> "handleAuth",     guarded |-> FALSE] >>

RouteTable ==
  << [method |-> "GET",    path |-> << >>,             handler |-> "getHello",       guarded |-> FALSE],
     [method |-> "GET",    path |-> <<"health">>,      handler |-> "getHealth",      guarded |-> FALSE],
     [method |-> "POST",   path |-> <<"users">>,       handler |-> "create",         guarded |-> FALSE],
     [method |-> "GET",    path |-> <<"users">>,       handler |-> "findAll",        guarded |-> TRUE],
     [method |-> "GET",    path |-> <<"users", "me">>, handler |-> "getCurrentUser", guarded |-> TRUE],
     [method |-> "GET",    path |-> <<"users", ":id">>, handler |-> "findOne",       guarded |-> TRUE],
     [method |-> "PATCH",  path |-> <<"users", ":id">>, handler |-> "update",        guarded |-> TRUE],
     [method |-> "DELETE", path |-> <<"users", ":id">>, handler |-> "remove",        guarded |-> TRUE],
     [method |-> "ALL",    path |-> <<"auth", "*">>,   handler |-> "handleAuth",     guarded |-> FALSE] >>

SegMatches(pattern, seg) == pattern = ":id" \/ pattern = "*" \/ pattern = seg

RouteMatches(route, method, segs) ==
  /\ route.method \in {"ALL", method}
  /\ Len(segs) >= 1 /\ segs[1] = GlobalPrefix
  /\ Len(segs) = Len(route.path) + 1
  /\ \A i \in 1..Len(route.path) : SegMatches(route.path[i], segs[i + 1])

NotFoundRoute == [method |-> "ALL", path |-> << >>, handler |-> "notFound", guarded |-> FALSE]

\* a router in which the route declared last wins
Router_LastMatch(method, segs) ==
  LET hits == { i \in DOMAIN RouteTable : RouteMatches(RouteTable[i], method, segs) }
  IN IF hits = {} THEN NotFoundRoute
     ELSE RouteTable[CHOOSE i \in hits : \A j \in hits : i >= j]

\* the first route, in declaration order, that matches
Router(method, segs) ==
  LET hits == { i \in DOMAIN RouteTable : RouteMatches(RouteTable[i], method, segs) }
  IN IF hits = {} THEN NotFoundRoute
     ELSE RouteTable[CHOOSE i \in hits : \A j \in hits : i <= j]

\* next(): the framework dispatches the request to the first matching
\* route and, on a guarded route, calls AuthGuard.canActivate, which runs
\* up to its first await
Dispatch(r) ==
  LET route == Router(r.method, r.segs)
  IN IF route.handler = "notFound"
       THEN [r EXCEPT !.pc = "DONE", !.handler = "notFound",
                      !.resp = HttpError(404, "Not Found")]
     ELSE IF route.guarded
       THEN [r EXCEPT !.pc = "SESSION_LOOKUP", !.handler = route.handler,
                      !.trace = @ \o <<"SESSION_LOOKUP">>]
       ELSE [r EXCEPT !.pc = "HANDLER", !.handler = route.handler]

(***************************************************************************)
(* RawBodyMiddleware.                                                      *)
(***************************************************************************)
AuthPrefix == "/api/auth"

\* only req.url is tested
IsAuthRoute_UrlOnly(baseUrl, url) == StartsWith(url, AuthPrefix)

IsAuthRoute(baseUrl, url) ==
  StartsWith(baseUrl, AuthPrefix) \/ StartsWith(url, AuthPrefix)

\* use(): the request arrives; auth routes go straight on to next(), the
\* others are handed to express.json
Use(in, mount) ==
  /\ req.pc = "idle"
  /\ LET r == [IdleReq EXCEPT !.method = in.method, !.segs = in.segs,
                              !.raw = in.raw, !.stillOff = off]
     IN req' = IF IsAuthRoute(BaseUrl(in.segs, mount), ReqUrl(in.segs, mount))
                 THEN Dispatch([r EXCEPT !.trace = <<"next">>])
                 ELSE [r EXCEPT !.pc = "JSON"]
  /\ UNCHANGED <<fe, users, nextId, clock, sessions, accounts, issued, nextSid, off, last>>

\* the callback ignores the parser's error
JsonCallback_IgnoreError(r, err) ==
  [r EXCEPT !.pc = "URLENC", !.trace = @ \o <<"json">>]

\* the callback calls next itself instead of express.urlencoded
JsonCallback_SkipUrlencoded(r, err) ==
  IF err
    THEN [r EXCEPT !.pc = "ERROR", !.trace = @ \o <<"json", "next(err)">>,
                   !.resp = [status |-> 400, message |-> "Bad Request", rows |-> << >>]]
    ELSE Dispatch([r EXCEPT !.trace = @ \o <<"json", "next">>])

\* the callback without the return after next(err)
JsonCallback_NoReturn(r, err) ==
  IF err
    THEN [r EXCEPT !.pc = "URLENC", !.trace = @ \o <<"json", "next(err)">>]
    ELSE [r EXCEPT !.pc = "URLENC", !.trace = @ \o <<"json">>]

\* the callback given to express.json
JsonCallback(r, err) ==
  IF err
    THEN [r EXCEPT !.pc = "ERROR", !.trace = @ \o <<"json", "next(err)">>,
                   !.resp = HttpError(400, "Bad Request")]
    ELSE [r EXCEPT !.pc = "URLENC", !.trace = @ \o <<"json">>]

\* express.json completes: a JSON body is parsed, any other is left alone
JsonParser ==
  /\ req.pc = "JSON"
  /\ req' = IF req.raw.kind = "badjson" THEN JsonCallback(req, TRUE)
            ELSE IF req.raw.kind = "json"
              THEN JsonCallback([req EXCEPT !.body = req.raw.dto, !.parsed = TRUE], FALSE)
              ELSE JsonCallback(req, FALSE)
  /\ UNCHANGED <<fe, users, nextId, clock, sessions, accounts, issued, nextSid, off, last>>

\* express.urlencoded completes and calls next itself
UrlencodedParser ==
  /\ req.pc = "URLENC"
  /\ req' = IF ~req.parsed /\ req.raw.kind = "badform"
              THEN [req EXCEPT !.pc = "ERROR",
                               !.trace = @ \o <<"urlencoded", "next(err)">>,
                               !.resp = HttpError(400, "Bad Request")]
            ELSE IF ~req.parsed /\ req.raw.kind = "form"
              THEN Dispatch([req EXCEPT !.body = req.raw.dto, !.parsed = TRUE,
                                        !.trace = @ \o <<"urlencoded", "next">>])
              ELSE Dispatch([req EXCEPT !.trace = @ \o <<"urlencoded", "next">>])
  /\ UNCHANGED <<fe, users, nextId, clock, sessions, accounts, issued, nextSid, off, last>>

(***************************************************************************)
(* AuthGuard.canActivate.                                                  *)
(***************************************************************************)
\* what auth.api.getSession may resolve to: null, or an object holding the
\* session of a cookie the provider issued (its cookie cache outlives the
\* Session row) and its user, either of which may be missing
ResolverResults ==
  {NullResult}
    \cup { [isNull |-> FALSE, session |-> s, user |-> s.userId] : s \in issued }
    \cup { [isNull |-> FALSE, session |-> s, user |-> NoId] : s \in issued }
    \cup { [isNull |-> FALSE, session |-> NoSession, user |-> t.userId] : t \in issued }

\* the guard tests only for a null result
SessionMissing_NullOnly(res) == res.isNull

\* !session?.session
SessionMissing(res) == res.isNull \/ res.session = NoSession

\* the guard tests only that the row exists
UserRejected_AbsentOnly(rows) == rows = << >>

\* the guard trusts the resolved session and skips the store
UserRejected_Never(rows) == FALSE

\* !user || !user.isActive
UserRejected(rows) == rows = << >> \/ ~rows[1].isActive

Unauthorized(message) == HttpError(401, message)

\* an error of a lookup that is not an HttpException
LookupError == HttpError(500, "lookup failed")

\* the catch block rethrows what it caught
CatchError_Rethrow(err) == err

\* catch (error) { throw new UnauthorizedException('Authentication failed') }
CatchError(err) == Unauthorized("Authentication failed")

\* a guard that notes the rejection and lets the request go on
Reject_Proceed(r, err, cause) ==
  [r EXCEPT !.pc = "HANDLER", !.cause = cause, !.trace = @ \o <<"REJECT">>]

\* what the catch block writes to the log: it has no logger and no log call
GuardLog(err) == << >>

\* the guard throws: the request ends with the exception's response
Reject(r, err, cause) ==
  [r EXCEPT !.pc = "REJECT", !.resp = CatchError(err), !.cause = cause,
            !.trace = @ \o <<"REJECT">>, !.log = @ \o GuardLog(err)]

\* await auth.api.getSession(...) settles
GuardSessionLookup ==
  /\ req.pc = "SESSION_LOOKUP"
  /\ \/ \E res \in ResolverResults :
          LET r == [req EXCEPT !.sres = res, !.resolved = TRUE]
          IN req' = IF SessionMissing(res)
                      THEN Reject(r, Unauthorized("Invalid or expired session"), "no-session")
                      ELSE [r EXCEPT !.pc = "USER_LOOKUP", !.trace = @ \o <<"USER_LOOKUP">>]
     \/ req' = Reject(req, LookupError, "session-lookup-threw")
  /\ UNCHANGED <<fe, users, nextId, clock, sessions, accounts, issued, nextSid, off, last>>

\* await prisma.user.findUnique(...) settles; attach and allow, or reject
GuardUserLookup ==
  /\ req.pc = "USER_LOOKUP"
  /\ \/ LET rows == FindUniqueById(users, req.sres.session.userId)
            r == [req EXCEPT !.seen = IF rows = << >> THEN "absent"
                                      ELSE IF rows[1].isActive THEN "active"
                                      ELSE "inactive",
                             !.offAtLookup = req.sres.session.userId \in req.stillOff]
        IN req' = IF UserRejected(rows)
                    THEN Reject(r, Unauthorized("User not found or inactive"),
                                IF rows = << >> THEN "no-user" ELSE "inactive")
                    ELSE [r EXCEPT !.user = req.sres.user,
                                   !.session = req.sres.session,
                                   !.pc = "HANDLER",
                                   !.trace = @ \o <<"ATTACH", "ALLOW">>]
     \/ req' = Reject(req, LookupError, "user-lookup-threw")
  /\ UNCHANGED <<fe, users, nextId, clock, sessions, accounts, issued, nextSid, off, last>>

(***************************************************************************)
(* Controllers.                                                            *)
(***************************************************************************)
Ok(status, rows) == [status |-> status, message |-> "OK", rows |-> rows]

\* an exception that is not an HttpException reaches the default filter
Uncaught(error) == HttpError(500, "Internal server error")

Reply(res, status) == IF res.error = NoError THEN Ok(status, res.rows) ELSE Uncaught(res.error)

Done(r, name, resp) ==
  [r EXCEPT !.pc = "DONE", !.trace = @ \o <<name>>, !.resp = resp]

Handling(name) == req.pc = "HANDLER" /\ req.handler = name

\* AppController.getHello
GetHello ==
  /\ Handling("getHello")
  /\ req' = Done(req, "getHello", Ok(200, << >>))
  /\ UNCHANGED <<fe, users, nextId, clock, sessions, accounts, issued, nextSid, off, last>>

\* AppController.getHealth
GetHealth ==
  /\ Handling("getHealth")
  /\ req' = Done(req, "getHealth", Ok(200, << >>))
  /\ UNCHANGED <<fe, users, nextId, clock, sessions, accounts, issued, nextSid, off, last>>

\* ValidationPipe on CreateUserDto: email is required
ValidCreate(body) == "email" \in DOMAIN body

\* UsersController.create
ControllerCreate ==
  /\ Handling("create")
  /\ IF ~ValidCreate(req.body)
       THEN /\ req' = [req EXCEPT !.pc = "DONE", !.resp = HttpError(400, "Bad Request")]
            /\ UNCHANGED <<fe, users, nextId, sessions, accounts, off>>
       ELSE /\ nextId <= MaxUsers \/ EmailTaken(users, req.body.email, NoId)
            /\ LET res == ServiceCreate(req.body)
               IN Commit(res, "create", NoId, req.body, Done(req, "create", Reply(res, 201)))
  /\ UNCHANGED <<fe, clock, issued, nextSid, last>>

\* UsersController.findAll
ControllerFindAll ==
  /\ Handling("findAll")
  /\ \E q \in ServiceFindAll : req' = Done(req, "findAll", Ok(200, q))
  /\ UNCHANGED <<fe, users, nextId, clock, sessions, accounts, issued, nextSid, off, last>>

\* UsersController.getCurrentUser
GetCurrentUser ==
  /\ Handling("getCurrentUser")
  /\ req' = Done(req, "getCurrentUser", Ok(200, <<req.user>>))
  /\ UNCHANGED <<fe, users, nextId, clock, sessions, accounts, issued, nextSid, off, last>>

\* UsersController.findOne
ControllerFindOne ==
  /\ Handling("findOne")
  /\ req' = Done(req, "findOne", Ok(200, ServiceFindOne(req.segs[3])))
  /\ UNCHANGED <<fe, users, nextId, clock, sessions, accounts, issued, nextSid, off, last>>

\* UsersController.update
ControllerUpdate ==
  /\ Handling("update")
  /\ LET res == ServiceUpdate(req.segs[3], req.body)
     IN Commit(res, "update", req.segs[3], req.body, Done(req, "update", Reply(res, 200)))
  /\ UNCHANGED <<fe, clock, issued, nextSid, last>>

\* UsersController.remove
ControllerRemove ==
  /\ Handling("remove")
  /\ LET res == ServiceRemove(req.segs[3])
     IN Commit(res, "remove", req.segs[3], RemoveData,
               Done(req, "remove", Reply([res EXCEPT !.rows = << >>], 200)))
  /\ UNCHANGED <<fe, clock, issued, nextSid, last>>

\* AuthController.handleAuth: the request goes to the provider's own
\* handler, which reads the raw body itself
HandleAuth ==
  /\ Handling("handleAuth")
  /\ req' = Done(req, "handleAuth",
                 IF req.raw.kind = "json" THEN Ok(200, << >>)
                 ELSE HttpError(400, "Bad Request"))
  /\ UNCHANGED <<fe, users, nextId, clock, sessions, accounts, issued, nextSid, off, last>>

(***************************************************************************)
(* The Auth Provider on the store: sign-up creates a User with the schema  *)
(* defaults, its Account and a Session; sign-in creates a Session for a    *)
(* User that has an Account, whatever its isActive.                        *)
(***************************************************************************)
ProviderSignUp(e) ==
  /\ nextId <= MaxUsers /\ nextSid <= MaxSessions
  /\ LET res == PrismaCreate(users, UserId(nextId), clock, [email |-> e])
         s == [id |-> nextSid, userId |-> UserId(nextId)]
     IN /\ res.error = NoError
        /\ users' = res.users
        /\ nextId' = nextId + 1
        /\ accounts' = accounts \cup {[id |-> nextId, userId |-> UserId(nextId)]}
        /\ sessions' = sessions \cup {s}
        /\ issued' = issued \cup {s}
        /\ nextSid' = nextSid + 1
  /\ UNCHANGED <<fe, clock, off, last, req>>

ProviderSignIn(id) ==
  /\ nextSid <= MaxSessions
  /\ id \in DOMAIN users
  /\ \E a \in accounts : a.userId = id
  /\ sessions' = sessions \cup {[id |-> nextSid, userId |-> id]}
  /\ issued' = issued \cup {[id |-> nextSid, userId |-> id]}
  /\ nextSid' = nextSid + 1
  /\ UNCHANGED <<fe, users, nextId, clock, accounts, off, last, req>>

(***************************************************************************)
(* A call of the service by another caller completes while the request is  *)
(* in flight; its result goes to that caller.                              *)
(***************************************************************************)
Calls ==
  { [op |-> "create", id |-> NoId, data |-> d] : d \in CreateDtos }
    \cup { [op |-> "update", id |-> i, data |-> d] : i \in UserIds, d \in UpdateDtos }
    \cup { [op |-> "remove", id |-> i, data |-> RemoveData] : i \in UserIds }
    \cup { [op |-> "hardDelete", id |-> i, data |-> EmptyDto] : i \in UserIds }

Perform(c) ==
  CASE c.op = "create" -> ServiceCreate(c.data)
    [] c.op = "update" -> ServiceUpdate(c.id, c.data)
    [] c.op = "remove" -> ServiceRemove(c.id)
    [] c.op = "hardDelete" -> ServiceHardDelete(c.id)

ConcurrentCall(c) ==
  /\ c.op = "create" => (nextId <= MaxUsers \/ EmailTaken(users, c.data.email, NoId))
  /\ Commit(Perform(c), c.op, c.id, c.data, req)
  /\ UNCHANGED <<fe, clock, issued, nextSid, last>>

\* the response is sent; the next request may arrive
Finish ==
  /\ req.pc \in {"DONE", "REJECT", "ERROR"}
  /\ req' = IdleReq
  /\ UNCHANGED <<fe, users, nextId, clock, sessions, accounts, issued, nextSid, off, last>>

(***************************************************************************)
(* Frontend.  useSession() yields { data: session, isPending }; a layout   *)
(* renders from the values it read, and its effect runs after the render   *)
(* whenever one of its dependencies [session, isPending, router] changed.  *)
(***************************************************************************)
NoClientSession == "null"

ClientSessions == {NoClientSession, "session"}

LayoutNames == {"AuthLayout", "DashboardLayout"}

\* what a layout returns
Loading == "loading"

Nothing == "null"

Children == "children"

Unmounted == "unmounted"

\* AuthLayout, the returned element
AuthLayoutRender(isPending, session) ==
  IF isPending THEN Loading
  ELSE IF session # NoClientSession THEN Nothing
  ELSE Children

\* AuthLayout, the effect
AuthLayoutEffect(isPending, session) ==
  IF ~isPending /\ session # NoClientSession THEN <<"/dashboard">> ELSE << >>

\* DashboardLayout testing the session before isPending
DashboardLayoutRender_SessionFirst(isPending, session) ==
  IF session # NoClientSession THEN Children
  ELSE IF isPending THEN Loading
  ELSE Nothing

\* DashboardLayout, the returned element
DashboardLayoutRender(isPending, session) ==
  IF isPending THEN Loading
  ELSE IF session = NoClientSession THEN Nothing
  ELSE Children

\* DashboardLayout redirecting without waiting for the session check
DashboardLayoutEffect_IgnorePending(isPending, session) ==
  IF session = NoClientSession THEN <<"/login">> ELSE << >>

\* DashboardLayout, the effect
DashboardLayoutEffect(isPending, session) ==
  IF ~isPending /\ session = NoClientSession THEN <<"/login">> ELSE << >>

LayoutRender(l, isPending, session) ==
  IF l = "AuthLayout" THEN AuthLayoutRender(isPending, session)
  ELSE DashboardLayoutRender(isPending, session)

LayoutEffect(l, isPending, session) ==
  IF l = "AuthLayout" THEN AuthLayoutEffect(isPending, session)
  ELSE DashboardLayoutEffect(isPending, session)

NoView == [out |-> Unmounted, isPending |-> TRUE, session |-> NoClientSession,
           effectDue |-> FALSE]

\* the data hooks
HookNames == {"useCurrentUser", "useAllUsers"}

\* useCurrentUser: retry
RetryCurrentUser == 1

\* useAllUsers: retry
RetryAllUsers == 1

Retry(h) == IF h = "useCurrentUser" THEN RetryCurrentUser ELSE RetryAllUsers

HookRoute(h) == IF h = "useCurrentUser" THEN "/api/users/me" ELSE "/api/users"

NoQuery == [status |-> "idle", failureCount |-> 0, requests |-> 0]

FeStart(isPending, session) ==
  [isPending |-> isPending, session |-> session,
   view |-> [l \in LayoutNames |-> NoView],
   pushes |-> << >>,
   query |-> [h \in HookNames |-> NoQuery]]

\* the session store changes: the check resolves, starts again, or the
\* session appears or disappears
SessionChange(isPending, session) ==
  /\ <<isPending, session>> # <<fe.isPending, fe.session>>
  /\ fe' = [fe EXCEPT !.isPending = isPending, !.session = session]
  /\ UNCHANGED <<users, nextId, clock, sessions, accounts, issued, nextSid, off, last, req>>

\* the layout renders (first of all when it mounts, later when a value it
\* read has changed); effects of the previous render have run by then
Render(l) ==
  /\ ~fe.view[l].effectDue
  /\ Len(fe.pushes) < MaxPushes
  /\ \/ fe.view[l].out = Unmounted
     \/ <<fe.view[l].isPending, fe.view[l].session>> # <<fe.isPending, fe.session>>
  /\ fe' = [fe EXCEPT !.view[l] =
              [out |-> LayoutRender(l, fe.isPending, fe.session),
               isPending |-> fe.isPending, session |-> fe.session,
               effectDue |-> TRUE]]
  /\ UNCHANGED <<users, nextId, clock, sessions, accounts, issued, nextSid, off, last, req>>

\* the effect of the last render runs, with the values that render read
Effect(l) ==
  /\ fe.view[l].effectDue
  /\ fe' = [fe EXCEPT !.view[l].effectDue = FALSE,
                      !.pushes = @ \o LayoutEffect(l, fe.view[l].isPending, fe.view[l].session)]
  /\ UNCHANGED <<users, nextId, clock, sessions, accounts, issued, nextSid, off, last, req>>

\* useQuery mounts and issues its request
QueryMount(h) ==
  /\ fe.query[h].status = "idle"
  /\ fe' = [fe EXCEPT !.query[h] = [status |-> "fetching", failureCount |-> 0, requests |-> 1]]
  /\ UNCHANGED <<users, nextId, clock, sessions, accounts, issued, nextSid, off, last, req>>

\* the request of the query is answered with success
QueryResolve(h) ==
  /\ fe.query[h].status = "fetching"
  /\ fe' = [fe EXCEPT !.query[h].status = "success"]
  /\ UNCHANGED <<users, nextId, clock, sessions, accounts, issued, nextSid, off, last, req>>

\* the request of the query fails: it is issued again while the failures
\* so far are fewer than retry, else the query ends in error
QueryReject(h) ==
  /\ fe.query[h].status = "fetching"
  /\ fe' = IF fe.query[h].failureCount < Retry(h)
             THEN [fe EXCEPT !.query[h].failureCount = @ + 1,
                             !.query[h].requests = @ + 1]
             ELSE [fe EXCEPT !.query[h].failureCount = @ + 1,
                             !.query[h].status = "error"]
  /\ UNCHANGED <<users, nextId, clock, sessions, accounts, issued, nextSid, off, last, req>>

(***************************************************************************)
(* Specification.                                                          *)
(***************************************************************************)
NoUsers == [i \in {} |-> SchemaDefaults]

Init ==
  /\ users = NoUsers
  /\ nextId = 1
  /\ clock = 0
  /\ sessions = {}
  /\ accounts = {}
  /\ issued = {}
  /\ nextSid = 1
  /\ off = {}
  /\ last = Found("none", NoId, << >>)
  /\ req = IdleReq
  /\ fe = FeStart(TRUE, NoClientSession)

Next ==
  \/ \E in \in Inbound, mount \in Mounts : Use(in, mount)
  \/ JsonParser
  \/ UrlencodedParser
  \/ GuardSessionLookup
  \/ GuardUserLookup
  \/ GetHello
  \/ GetHealth
  \/ ControllerCreate
  \/ ControllerFindAll
  \/ GetCurrentUser
  \/ ControllerFindOne
  \/ ControllerUpdate
  \/ ControllerRemove
  \/ HandleAuth
  \/ Finish
  \/ \E c \in Calls : ConcurrentCall(c)
  \/ \E e \in Emails : ProviderSignUp(e)
  \/ \E id \in UserIds : ProviderSignIn(id)

Spec == Init /\ [][Next]_vars

(***************************************************************************)
(* The services called directly, one call after the other, each result     *)
(* kept in last.                                                           *)
(***************************************************************************)
NextService ==
  \/ \E dto \in CreateDtos : Create(dto)
  \/ FindAll
  \/ \E id \in UserIds : FindOne(id)
  \/ \E e \in Emails : FindByEmail(e)
  \/ \E id \in UserIds, dto \in UpdateDtos : Update(id, dto)
  \/ \E id \in UserIds : Remove(id)
  \/ \E id \in UserIds : HardDelete(id)
  \/ \E id \in UserIds, b \in BOOLEAN : UpdateUserStatus(id, b)
  \/ \E e \in Emails : ProviderSignUp(e)
  \/ \E id \in UserIds : ProviderSignIn(id)
  \/ Tick

SpecService == Init /\ [][NextService]_vars

(***************************************************************************)
(* The frontend alone: the layouts under every course of the session       *)
(* check, starting from any value of the session store, and the queries.   *)
(***************************************************************************)
InitFrontend ==
  /\ users = NoUsers
  /\ nextId = 1
  /\ clock = 0
  /\ sessions = {}
  /\ accounts = {}
  /\ issued = {}
  /\ nextSid = 1
  /\ off = {}
  /\ last = Found("none", NoId, << >>)
  /\ req = IdleReq
  /\ \E p \in BOOLEAN, s \in ClientSessions : fe = FeStart(p, s)

NextFrontend ==
  \/ \E p \in BOOLEAN, s \in ClientSessions : SessionChange(p, s)
  \/ \E l \in LayoutNames : Render(l)
  \/ \E l \in LayoutNames : Effect(l)
  \/ \E h \in HookNames : QueryMount(h)
  \/ \E h \in HookNames : QueryResolve(h)
  \/ \E h \in HookNames : QueryReject(h)

SpecFrontend == InitFrontend /\ [][NextFrontend]_vars

TypeOK ==
  /\ nextId \in 1..(MaxUsers + 1)
  /\ DOMAIN users \subseteq UserIds
  /\ sessions \subseteq issued

(***************************************************************************)
(* Vocabulary of the properties.                                           *)
(***************************************************************************)
Ran(event) == \E i \in DOMAIN req.trace : req.trace[i] = event

Position(event) == CHOOSE i \in DOMAIN req.trace : req.trace[i] = event

HandlerNames ==
  {"getHello", "getHealth", "create", "findAll", "getCurrentUser", "findOne",
   "update", "remove", "handleAuth"}

HandlerExecuted == \E h \in HandlerNames : Ran(h)

GuardEvents == {"SESSION_LOOKUP", "USER_LOOKUP", "ATTACH", "ALLOW", "REJECT"}

GuardExecuted == \E g \in GuardEvents : Ran(g)

InFlight == req.pc # "idle"

OnPath(method, segs) == InFlight /\ req.method = method /\ req.segs = segs

OnUsersId(method) ==
  /\ InFlight /\ req.method = method /\ Len(req.segs) = 3
  /\ req.segs[1] = "api" /\ req.segs[2] = "users"

\* GET /users, GET /users/me, GET /users/:id, PATCH /users/:id, DELETE /users/:id
OnProtectedUsersRoute ==
  \/ OnPath("GET", <<"api", "users">>)
  \/ OnUsersId("GET") \/ OnUsersId("PATCH") \/ OnUsersId("DELETE")

\* GET / and GET /health
OnAppRoute == OnPath("GET", <<"api">>) \/ OnPath("GET", <<"api", "health">>)

AuthenticationFailure ==
  [status |-> 401, message |-> "Authentication failed", rows |-> << >>]

Rejected == req.pc = "REJECT" /\ req.resp.status = 401 /\ ~HandlerExecuted

UnderAuth == InFlight /\ StartsWith(Url(req.segs), "/api/auth")

(***************************************************************************)
(* C1: on a route protected by AuthGuard, when the session resolver has    *)
(* returned no session the guard raises a 401 and the handler of the route *)
(* is not executed for that request.                                       *)
(***************************************************************************)
NoSessionReturned == req.resolved /\ (req.sres.isNull \/ req.sres.session = NoSession)

C1_NoSessionRejected ==
  (OnProtectedUsersRoute /\ NoSessionReturned) => Rejected

C1_Witness ==
  /\ OnPath("GET", <<"api", "users", "me">>) /\ NoSessionReturned
  /\ req.pc = "REJECT" /\ req.cause = "no-session"

(***************************************************************************)
(* C2: when the session was resolved but the guard's user lookup found no  *)
(* User row, or one with isActive = false, the guard rejects with an       *)
(* authentication failure and the handler is not executed.                 *)
(***************************************************************************)
C2_MissingOrInactiveRejected ==
  (req.resolved /\ req.seen \in {"absent", "inactive"}) => Rejected

C2_Witness ==
  /\ req.resolved /\ req.seen = "inactive" /\ req.pc = "REJECT"
  /\ req.sres.session \in sessions

(***************************************************************************)
(* C3: once remove(U) or hardDelete(U) has completed, a guarded request    *)
(* that starts afterwards with a session of U is rejected for as long as   *)
(* U.isActive has not been set back to true, also when the provider still  *)
(* returns the session as valid.                                           *)
(***************************************************************************)
C3_RemovedStaysLockedOut ==
  (req.resolved /\ req.seen # "" /\ req.offAtLookup) => Rejected

\* the Session row is gone with the hard-deleted user, the cookie cache
\* still resolves the session
C3_Witness ==
  /\ req.offAtLookup /\ req.pc = "REJECT" /\ ~req.sres.isNull
  /\ req.sres.session \in issued \ sessions
  /\ req.sres.user = req.sres.session.userId

(***************************************************************************)
(* C4: every rejection by the guard carries the same status and the same   *)
(* message, whatever its cause: missing session, missing user row,         *)
(* inactive user, or an exception thrown by either lookup.                 *)
(***************************************************************************)
RejectionCauses ==
  {"no-session", "no-user", "inactive", "session-lookup-threw", "user-lookup-threw"}

C4_UniformRejection ==
  req.pc = "REJECT" =>
    /\ req.cause \in RejectionCauses
    /\ req.resp = AuthenticationFailure

C4_Witness == req.pc = "REJECT" /\ req.cause = "user-lookup-threw"

(***************************************************************************)
(* C5: a resolver result that holds a session but no user never reaches    *)
(* ATTACH/ALLOW (a result with either part missing is rejected).           *)
(***************************************************************************)
C5_SessionWithoutUserNeverAllowed ==
  (req.resolved /\ ~req.sres.isNull /\ req.sres.user = NoId) => ~Ran("ALLOW")

(***************************************************************************)
(* C6 as stated: the handlers of GET /, GET /health and of every users     *)
(* route but POST /users run only after the guard has allowed the request. *)
(***************************************************************************)
C6_AllButCreateGuarded ==
  ((OnAppRoute \/ OnProtectedUsersRoute) /\ HandlerExecuted) => Ran("ALLOW")

(***************************************************************************)
(* C6 amended: the handlers of GET /users, GET /users/me, GET /users/:id,  *)
(* PATCH /users/:id and DELETE /users/:id run only after the guard has     *)
(* allowed the request, and never for a request without a valid session.   *)
(***************************************************************************)
C6_UsersRoutesGuarded ==
  (OnProtectedUsersRoute /\ HandlerExecuted) =>
    /\ Ran("ALLOW")
    /\ \A h \in HandlerNames : Ran(h) => Position("ALLOW") < Position(h)
    /\ req.resolved /\ ~req.sres.isNull /\ req.sres.session # NoSession
    /\ req.seen = "active"

C6_Witness ==
  /\ OnPath("GET", <<"api", "users">>) /\ Ran("findAll") /\ Ran("ALLOW")

(***************************************************************************)
(* C7: for a request under /api/auth the middleware invokes neither the    *)
(* JSON parser nor the URL-encoded parser and passes the request on with   *)
(* its body unparsed.                                                      *)
(***************************************************************************)
C7_AuthRoutesUnparsed ==
  UnderAuth =>
    /\ ~Ran("json") /\ ~Ran("urlencoded")
    /\ Len(req.trace) >= 1 /\ req.trace[1] = "next"
    /\ ~req.parsed /\ DOMAIN req.body = {}

C7_Witness ==
  /\ UnderAuth /\ Ran("handleAuth") /\ req.raw.kind = "json" /\ ~req.parsed

(***************************************************************************)
(* C8: for a request that is not an auth route the JSON parser runs first, *)
(* the URL-encoded parser second, the pipeline continues only after both,  *)
(* and the handler sees the parsed body.                                   *)
(***************************************************************************)
Downstream == req.pc \in {"SESSION_LOOKUP", "USER_LOOKUP", "HANDLER", "DONE", "REJECT"}

C8_ParsersThenPipeline ==
  (InFlight /\ ~UnderAuth) =>
    /\ Ran("urlencoded") => (Ran("json") /\ Position("json") < Position("urlencoded"))
    /\ (Downstream \/ GuardExecuted \/ HandlerExecuted) =>
         (Len(req.trace) >= 3 /\ SubSeq(req.trace, 1, 3) = <<"json", "urlencoded", "next">>)
    /\ (HandlerExecuted /\ req.raw.kind \in {"json", "form"}) =>
         (req.parsed /\ req.body = req.raw.dto)

C8_Witness ==
  /\ ~UnderAuth /\ Ran("create") /\ req.raw.kind = "form" /\ req.parsed
  /\ req.body = [email |-> "a@x.com"]

(***************************************************************************)
(* C9: a body that fails to parse on a non-auth route ends the request     *)
(* with an error: a JSON failure is passed to next(err), the URL-encoded   *)
(* parser does not run after it, and neither guard nor handler executes.   *)
(***************************************************************************)
C9_ParseFailureShortCircuits ==
  /\ (InFlight /\ ~UnderAuth /\ req.raw.kind = "badjson" /\ req.pc # "JSON") =>
       /\ req.pc = "ERROR" /\ req.trace = <<"json", "next(err)">>
       /\ req.resp.status = 400
  /\ (InFlight /\ ~UnderAuth /\ req.raw.kind = "badform" /\ req.pc \notin {"JSON", "URLENC"}) =>
       /\ req.pc = "ERROR" /\ req.trace = <<"json", "urlencoded", "next(err)">>
       /\ req.resp.status = 400

C9_Witness ==
  /\ OnPath("PATCH", <<"api", "users", "u1">>) /\ req.raw.kind = "badjson"
  /\ req.pc = "ERROR" /\ ~Ran("urlencoded") /\ ~GuardExecuted /\ ~HandlerExecuted

(***************************************************************************)
(* C10: whatever create, update, remove and hardDelete calls came before,  *)
(* findAll returns exactly the users whose isActive is true, each once,    *)
(* ordered by createdAt descending.                                        *)
(***************************************************************************)
ActiveUsers == { users[i] : i \in { j \in DOMAIN users : users[j].isActive = TRUE } }

C10_FindAllActiveNewestFirst ==
  [][FindAll =>
       /\ { last'.rows[i] : i \in DOMAIN last'.rows } = ActiveUsers
       /\ Len(last'.rows) = Cardinality(ActiveUsers)
       /\ \A i, j \in DOMAIN last'.rows :
            i < j => last'.rows[i].createdAt >= last'.rows[j].createdAt]_vars

\* findAll has returned one user while a later-created inactive one is stored
C10_Witness ==
  /\ last.op = "findAll" /\ Len(last.rows) = 1
  /\ \E i \in DOMAIN users : ~users[i].isActive /\ users[i].createdAt > last.rows[1].createdAt

(***************************************************************************)
(* C11: every User row produced by UsersService.create has                 *)
(* emailVerified = false and isActive = true, whatever the DTO supplies    *)
(* for these two fields; the row returned is the row stored.               *)
(***************************************************************************)
C11_CreateForcesDefaults ==
  [][\A dto \in CreateDtos :
       (Create(dto) /\ last'.error = NoError) =>
         /\ Len(last'.rows) = 1
         /\ last'.rows[1].emailVerified = FALSE
         /\ last'.rows[1].isActive = TRUE
         /\ last'.rows[1].id \in DOMAIN users' \ DOMAIN users
         /\ users'[last'.rows[1].id] = last'.rows[1]]_vars

\* the only create DTO with email b@x.com supplies isActive = false
C11_Witness ==
  /\ last.op = "create" /\ last.error = NoError
  /\ \E dto \in CreateDtos :
       /\ dto.email = last.rows[1].email
       /\ \A d \in CreateDtos : d.email = dto.email => d = dto
       /\ "isActive" \in DOMAIN dto /\ dto.isActive = FALSE
  /\ last.rows[1].isActive = TRUE

(***************************************************************************)
(* C12: creating a user with an email that an existing user already holds  *)
(* fails with a Conflict failure (409), creates no row and leaves the      *)
(* existing rows unchanged.                                                *)
(***************************************************************************)
C12_DuplicateEmailConflict ==
  [][(/\ ControllerCreate
      /\ ValidCreate(req.body)
      /\ EmailTaken(users, req.body.email, NoId)) =>
        /\ req'.resp.status = 409
        /\ users' = users]_vars

(***************************************************************************)
(* C13: soft remove is idempotent.  SecondRemove(id) is a call remove(id)  *)
(* for an existing user whose remove has already completed.                *)
(***************************************************************************)
SecondRemove(id) == Remove(id) /\ id \in DOMAIN users /\ id \in off

\* C13 as stated: the second remove(id) completes without error and leaves
\* the store in the same state as the first one did.
C13_RemoveTwiceSameStore ==
  [][\A id \in UserIds :
       SecondRemove(id) =>
         /\ last'.error = NoError
         /\ users' = users
         /\ sessions' = sessions /\ accounts' = accounts]_vars

\* C13 amended: the second remove(id) completes without error, isActive
\* stays false, and nothing in the store changes except the updatedAt of
\* the addressed row, which is set to the time of the call.
C13_RemoveTwiceSameButUpdatedAt ==
  [][\A id \in UserIds :
       SecondRemove(id) =>
         /\ last'.error = NoError
         /\ users[id].isActive = FALSE /\ users'[id].isActive = FALSE
         /\ users' = [users EXCEPT ![id].updatedAt = clock]
         /\ last'.rows = <<users'[id]>>
         /\ sessions' = sessions /\ accounts' = accounts]_vars

\* a second remove has completed, later than the first
C13_Witness ==
  /\ last.op = "remove" /\ last.wasOff /\ last.error = NoError
  /\ last.before # << >> /\ last.before[1].isActive = FALSE
  /\ last.rows[1].isActive = FALSE
  /\ last.rows[1].updatedAt > last.before[1].updatedAt

(***************************************************************************)
(* C14: the frame of remove(id) for an existing user.                      *)
(***************************************************************************)
\* C14 as stated: remove(id) changes only the isActive field of the
\* addressed row; the row still exists, every other User row and the
\* Session and Account rows are as before.
C14_RemoveChangesOnlyIsActive ==
  [][\A id \in UserIds :
       (Remove(id) /\ id \in DOMAIN users) =>
         /\ id \in DOMAIN users'
         /\ users' = [users EXCEPT ![id].isActive = FALSE]
         /\ sessions' = sessions /\ accounts' = accounts]_vars

\* C14 amended: remove(id) changes only the isActive and updatedAt fields
\* of the addressed row; the row still exists, every other User row and
\* the Session and Account rows are as before.
C14_RemoveChangesIsActiveAndUpdatedAt ==
  [][\A id \in UserIds :
       (Remove(id) /\ id \in DOMAIN users) =>
         /\ id \in DOMAIN users'
         /\ users' = [users EXCEPT ![id].isActive = FALSE, ![id].updatedAt = clock]
         /\ \A f \in DOMAIN users[id] \ {"isActive", "updatedAt"} :
              users'[id][f] = users[id][f]
         /\ \A i \in DOMAIN users \ {id} : users'[i] = users[i]
         /\ sessions' = sessions /\ accounts' = accounts]_vars

\* an active user owning a session and an account has been removed, later
\* than its last update, next to another user
C14_Witness ==
  /\ last.op = "remove" /\ last.error = NoError
  /\ last.before # << >> /\ last.before[1].isActive = TRUE
  /\ last.id \in DOMAIN users /\ users[last.id] = last.rows[1]
  /\ users[last.id].isActive = FALSE
  /\ users[last.id].updatedAt > last.before[1].updatedAt
  /\ \E i \in DOMAIN users : i # last.id
  /\ \E s \in sessions : s.userId = last.id
  /\ \E a \in accounts : a.userId = last.id

(***************************************************************************)
(* C15: after hardDelete(id) has completed, findOne(id) returns not-found  *)
(* and no Session or Account row with userId = id remains; the rows of     *)
(* the other users, and their sessions and accounts, are unaffected.       *)
(***************************************************************************)
C15_HardDeleteCascades ==
  [][\A id \in UserIds :
       (HardDelete(id) /\ id \in DOMAIN users) =>
         /\ last'.error = NoError
         /\ FindUniqueById(users', id) = << >>
         /\ \A s \in sessions' : s.userId # id
         /\ \A a \in accounts' : a.userId # id
         /\ DOMAIN users' = DOMAIN users \ {id}
         /\ \A i \in DOMAIN users' : users'[i] = users[i]
         /\ sessions' = { s \in sessions : s.userId # id }
         /\ accounts' = { a \in accounts : a.userId # id }]_vars

\* a user who owned a session has been hard-deleted next to another user
\* who owns one
C15_Witness ==
  /\ last.op = "hardDelete" /\ last.error = NoError /\ last.before # << >>
  /\ last.id \notin DOMAIN users
  /\ \E s \in issued \ sessions : s.userId = last.id
  /\ \E s \in sessions : s.userId # last.id
  /\ \E a \in accounts : a.userId # last.id

(***************************************************************************)
(* C16: update(id, ...) and remove(id) addressed to an id with no User row *)
(* fail with a NotFound failure (404), distinct from the generic failure,  *)
(* and leave the store unchanged.                                          *)
(***************************************************************************)
C16_MissingIdNotFound ==
  [][((ControllerUpdate \/ ControllerRemove) /\ req.segs[3] \notin DOMAIN users) =>
        /\ req'.resp.status = 404
        /\ users' = users /\ sessions' = sessions /\ accounts' = accounts]_vars

(***************************************************************************)
(* C17: a lookup of a user by an id that matches no User row (GET          *)
(* /users/:id) is answered with a NotFound failure (404), not with a       *)
(* successful response carrying an empty result.                           *)
(***************************************************************************)
C17_MissingLookupNotFound ==
  [][(ControllerFindOne /\ req.segs[3] \notin DOMAIN users) =>
        /\ req'.resp.status = 404
        /\ ~(req'.resp.status = 200 /\ req'.resp.rows = << >>)]_vars

(***************************************************************************)
(* C18: findOne(id) and findByEmail(email) apply no activity filter: for   *)
(* every existing user they return that user's row, whether isActive is    *)
(* true or false.                                                          *)
(***************************************************************************)
C18_LookupsSeeInactive ==
  [][/\ \A id \in DOMAIN users :
          FindOne(id) => last'.rows = <<users[id]>>
     /\ \A id \in DOMAIN users :
          FindByEmail(users[id].email) => last'.rows = <<users[id]>>]_vars

\* findOne has returned the row of a soft-removed user
C18_Witness ==
  /\ last.op = "findOne" /\ last.rows # << >>
  /\ last.rows[1].isActive = FALSE
  /\ last.id \in off /\ last.id \in DOMAIN users /\ users[last.id] = last.rows[1]

(***************************************************************************)
(* C19: in every reachable state, whatever create, update, remove and      *)
(* hardDelete calls of the request in flight and of other callers have     *)
(* interleaved, no two User rows have the same email; an update that would *)
(* set a user's email to one held by another user fails and changes        *)
(* nothing.                                                                *)
(***************************************************************************)
UniqueEmails ==
  \A i, j \in DOMAIN users : users[i].email = users[j].email => i = j

UpdateToTakenEmail ==
  /\ ControllerUpdate
  /\ req.segs[3] \in DOMAIN users
  /\ "email" \in DOMAIN req.body
  /\ \E i \in DOMAIN users \ {req.segs[3]} : users[i].email = req.body.email

C19_EmailUnique ==
  /\ []UniqueEmails
  /\ [][UpdateToTakenEmail =>
          /\ req'.resp.status >= 400
          /\ users' = users /\ sessions' = sessions /\ accounts' = accounts]_vars

\* an update to the email of another user has been refused
C19_Witness ==
  /\ req.pc = "DONE" /\ Ran("update") /\ req.resp.status >= 400
  /\ req.segs[3] \in DOMAIN users
  /\ "email" \in DOMAIN req.body
  /\ users[req.segs[3]].email # req.body.email
  /\ \E i \in DOMAIN users \ {req.segs[3]} : users[i].email = req.body.email

(***************************************************************************)
(* C20: in every reachable state each Session row and each Account row     *)
(* references a User row that exists; no sequence of operations, hard      *)
(* deletes included, leaves a Session or Account whose userId has no User. *)
(***************************************************************************)
C20_NoDanglingOwner ==
  /\ \A s \in sessions : s.userId \in DOMAIN users
  /\ \A a \in accounts : a.userId \in DOMAIN users

\* a user who owned a session and an account has been hard-deleted while
\* sessions and accounts of another user remain
C20_Witness ==
  /\ \E s \in issued : s.userId \notin DOMAIN users
  /\ sessions # {} /\ accounts # {}

(***************************************************************************)
(* C21: neither session-gated layout renders its children while the        *)
(* session check is pending: a render of AuthLayout or DashboardLayout     *)
(* that read isPending = true returned the loading indicator only,         *)
(* whatever session it read.                                               *)
(***************************************************************************)
C21_PendingShowsLoadingOnly ==
  \A l \in LayoutNames :
    (fe.view[l].out # Unmounted /\ fe.view[l].isPending) =>
      fe.view[l].out = Loading

\* both layouts have rendered while pending with a session present
C21_Witness ==
  \A l \in LayoutNames :
    /\ fe.view[l].out = Loading
    /\ fe.view[l].isPending
    /\ fe.view[l].session # NoClientSession

(***************************************************************************)
(* C22: once the session check has resolved, DashboardLayout renders its   *)
(* children iff a session exists and otherwise renders nothing and pushes  *)
(* '/login'; AuthLayout renders its children iff no session exists and     *)
(* otherwise renders nothing and pushes '/dashboard'; the effect of a      *)
(* render that read isPending = true pushes nothing.                       *)
(***************************************************************************)
Resolved(l) == fe.view[l].out # Unmounted /\ ~fe.view[l].isPending

\* the session presence the layout requires, in the values its render read
Admits(l) ==
  IF l = "DashboardLayout" THEN fe.view[l].session # NoClientSession
  ELSE fe.view[l].session = NoClientSession

RedirectOf(l) == IF l = "DashboardLayout" THEN "/login" ELSE "/dashboard"

C22_ResolvedRendersOrRedirects ==
  /\ [](\A l \in LayoutNames :
          Resolved(l) =>
            /\ fe.view[l].out = Children <=> Admits(l)
            /\ fe.view[l].out = Nothing <=> ~Admits(l))
  /\ [][\A l \in LayoutNames :
          Effect(l) =>
            fe'.pushes = fe.pushes \o
              (IF Resolved(l) /\ ~Admits(l) THEN <<RedirectOf(l)>> ELSE << >>)]_vars

\* both redirects have been issued, AuthLayout shows nothing and
\* DashboardLayout shows its children
C22_Witness ==
  /\ \E i \in DOMAIN fe.pushes : fe.pushes[i] = "/login"
  /\ \E i \in DOMAIN fe.pushes : fe.pushes[i] = "/dashboard"
  /\ fe.view["DashboardLayout"].out = Children
  /\ fe.view["AuthLayout"].out = Nothing
  /\ \A l \in LayoutNames : ~fe.view[l].effectDue

(***************************************************************************)
(* C23: nothing is retried automatically: when a request of a frontend     *)
(* data hook (GET /users/me, GET /users) fails, no further request is      *)
(* issued for it.                                                          *)
(***************************************************************************)
C23_FailedRequestNotReissued ==
  [][\A h \in HookNames :
       QueryReject(h) => fe'.query[h].requests = fe.query[h].requests]_vars

(***************************************************************************)
(* C24: within one request AuthGuard proceeds strictly in the order        *)
(* SESSION_LOOKUP, USER_LOOKUP, ATTACH, ALLOW: the user lookup starts only *)
(* after a session lookup that returned a session, request.user and        *)
(* request.session are set only after a user lookup that returned an       *)
(* active user, each lookup is performed at most once, and REJECT is       *)
(* terminal: nothing of the guard or the handler follows it.               *)
(***************************************************************************)
Times(event) == Cardinality({ i \in DOMAIN req.trace : req.trace[i] = event })

C24_GuardOrder ==
  /\ \A g \in GuardEvents : Times(g) <= 1
  /\ Ran("USER_LOOKUP") =>
       /\ Ran("SESSION_LOOKUP") /\ Position("SESSION_LOOKUP") < Position("USER_LOOKUP")
       /\ req.resolved /\ ~SessionMissing(req.sres)
  /\ Ran("ATTACH") =>
       /\ Ran("USER_LOOKUP") /\ Position("USER_LOOKUP") < Position("ATTACH")
       /\ req.seen = "active"
  /\ Ran("ALLOW") => Ran("ATTACH") /\ Position("ALLOW") = Position("ATTACH") + 1
  /\ req.session # NoSession =>
       Ran("ATTACH") /\ req.session = req.sres.session /\ req.user = req.sres.user
  /\ (\E h \in HandlerNames : Ran(h)) /\ GuardExecuted =>
       Ran("ALLOW") /\ \A h \in HandlerNames : Ran(h) => Position("ALLOW") < Position(h)
  /\ Ran("REJECT") =>
       /\ req.pc = "REJECT"
       /\ Position("REJECT") = Len(req.trace)
       /\ ~Ran("ALLOW") /\ ~Ran("ATTACH")

\* a request went through all four steps and its handler has answered
C24_Witness ==
  /\ req.pc = "DONE" /\ Ran("update")
  /\ Times("SESSION_LOOKUP") = 1 /\ Times("USER_LOOKUP") = 1
  /\ Times("ATTACH") = 1 /\ Times("ALLOW") = 1
  /\ req.session # NoSession

(***************************************************************************)
(* C25: when a lookup of the guard fails with a transient error, the guard *)
(* rejects and records a log entry that tells that error apart from an     *)
(* ordinary 'no session' rejection.                                        *)
(***************************************************************************)
TransientFailure == req.cause \in {"session-lookup-threw", "user-lookup-threw"}

C25_TransientErrorLogged ==
  (req.pc = "REJECT" /\ TransientFailure) =>
    /\ req.resp = AuthenticationFailure
    /\ req.log # << >>

(***************************************************************************)
(* C26: RawBodyMiddleware skips body parsing only for requests handled by  *)
(* the Auth Provider's controller; every other request, one whose path     *)
(* merely begins with the characters '/api/auth' included (for example     *)
(* '/api/authors'), goes through the parsers, and a handler other than     *)
(* handleAuth runs only after them.                                        *)
(***************************************************************************)
ParsingSkipped == Ran("next") /\ ~Ran("json") /\ ~Ran("urlencoded")

C26_OnlyAuthControllerUnparsed ==
  /\ (InFlight /\ ParsingSkipped) => req.handler = "handleAuth"
  /\ \A h \in HandlerNames \ {"handleAuth"} :
       Ran(h) => Ran("json") /\ Ran("urlencoded") /\ Position("urlencoded") < Position(h)

(***************************************************************************)
(* C27: on ALLOW the guard has set request.user and request.session to     *)
(* exactly the user and the session the Auth Provider resolved for that    *)
(* same request, GET /users/me answers with that attached user, and,       *)
(* because the 'me' route precedes ':id', a GET /users/me request is never *)
(* handled as findOne('me').                                               *)
(***************************************************************************)
C27_AttachedIdentityAndMe ==
  /\ Ran("ALLOW") =>
       /\ req.resolved
       /\ req.user = req.sres.user
       /\ req.session = req.sres.session
  /\ Ran("getCurrentUser") =>
       /\ OnPath("GET", <<"api", "users", "me">>)
       /\ req.resp = Ok(200, <<req.sres.user>>)
  /\ OnPath("GET", <<"api", "users", "me">>) =>
       /\ req.handler \in {"", "getCurrentUser"}
       /\ ~Ran("findOne")

\* GET /users/me has answered with the user the provider resolved
C27_Witness ==
  /\ OnPath("GET", <<"api", "users", "me">>) /\ req.pc = "DONE"
  /\ Ran("ALLOW") /\ Ran("getCurrentUser")
  /\ req.sres.user # NoId /\ req.resp.rows = <<req.sres.user>>
  /\ req.session \in issued

(***************************************************************************)
(* C28: when remove(U) runs concurrently with an in-flight guarded request *)
(* carrying U's session, the protected handler executes only if the user   *)
(* lookup of the guard for that request observed U with isActive = true:   *)
(* every execution of a protected handler is preceded, within the same     *)
(* request, by a user lookup that returned an active user.                 *)
(***************************************************************************)
ProtectedHandlers == {"findAll", "getCurrentUser", "findOne", "update", "remove"}

C28_HandlerAfterActiveLookup ==
  \A h \in ProtectedHandlers :
    ((req.pc = "HANDLER" /\ req.handler = h) \/ Ran(h)) =>
      /\ Ran("USER_LOOKUP") /\ Times("USER_LOOKUP") = 1
      /\ req.seen = "active"
      /\ Ran(h) => Position("USER_LOOKUP") < Position(h)

\* remove(U) completed between the user lookup of U's request and its
\* handler: the listing the handler returned no longer holds U
C28_Witness ==
  /\ req.pc = "DONE" /\ Ran("findAll") /\ req.seen = "active"
  /\ LET U == req.sres.session.userId
     IN /\ U \in DOMAIN users /\ U \in off /\ U \notin req.stillOff
        /\ users[U].isActive = FALSE
        /\ \A i \in DOMAIN req.resp.rows : req.resp.rows[i].id # U

(***************************************************************************)
(* C29: no HTTP route invokes hardDelete: DELETE /users/:id performs only  *)
(* the soft remove, so no step of a request through the API deletes a User *)
(* row, and the number of User rows never decreases by such a step.        *)
(***************************************************************************)
HttpStep ==
  \/ \E in \in Inbound, mount \in Mounts : Use(in, mount)
  \/ JsonParser \/ UrlencodedParser
  \/ GuardSessionLookup \/ GuardUserLookup
  \/ GetHello \/ GetHealth \/ ControllerCreate \/ ControllerFindAll
  \/ GetCurrentUser \/ ControllerFindOne \/ ControllerUpdate
  \/ ControllerRemove \/ HandleAuth \/ Finish

C29_ApiNeverDeletesRows ==
  /\ [][HttpStep =>
          /\ DOMAIN users \subseteq DOMAIN users'
          /\ Cardinality(DOMAIN users') >= Cardinality(DOMAIN users)]_vars
  /\ [][(ControllerRemove /\ req.segs[3] \in DOMAIN users) =>
          /\ req.segs[3] \in DOMAIN users'
          /\ users'[req.segs[3]].isActive = FALSE
          /\ req'.resp.status = 200]_vars

\* DELETE /users/:id has answered; the row is still there, inactive, and
\* so are the sessions of that user
C29_Witness ==
  /\ OnUsersId("DELETE") /\ req.pc = "DONE" /\ Ran("remove")
  /\ req.resp.status = 200
  /\ req.segs[3] \in DOMAIN users /\ users[req.segs[3]].isActive = FALSE
  /\ \E s \in sessions : s.userId = req.segs[3]

(***************************************************************************)
(* C30: for every request RawBodyMiddleware invokes the continuation       *)
(* exactly once on each of its paths: at once for auth routes, with the    *)
(* error when JSON parsing fails, and otherwise once through the           *)
(* URL-encoded parser's completion; it never calls next twice, and while   *)
(* the request is still inside the middleware the step that leads to next  *)
(* is there to be taken.                                                   *)
(***************************************************************************)
NextCalls == Times("next") + Times("next(err)")

InMiddleware == req.pc \in {"JSON", "URLENC"}

C30_NextExactlyOnce ==
  /\ NextCalls <= 1
  /\ InMiddleware => NextCalls = 0
  /\ req.pc = "JSON" => ENABLED JsonParser
  /\ req.pc = "URLENC" => ENABLED UrlencodedParser
  /\ (InFlight /\ ~InMiddleware) =>
       /\ NextCalls = 1
       /\ \/ /\ StartsWith(Url(req.segs), AuthPrefix)
             /\ req.trace[1] = "next"
          \/ /\ ~StartsWith(Url(req.segs), AuthPrefix)
             /\ req.raw.kind = "badjson"
             /\ SubSeq(req.trace, 1, 2) = <<"json", "next(err)">>
          \/ /\ ~StartsWith(Url(req.segs), AuthPrefix)
             /\ req.raw.kind # "badjson"
             /\ SubSeq(req.trace, 1, 2) = <<"json", "urlencoded">>
             /\ req.trace[3] \in {"next", "next(err)"}

\* the URL-encoded parser has failed and handed its error to next
C30_Witness ==
  /\ req.pc = "ERROR" /\ req.raw.kind = "badform"
  /\ Ran("urlencoded") /\ Times("next(err)") = 1 /\ ~Ran("next")

====
